---- MODULE Spec2Model ----
(***************************************************************************)
(* Editor portal (editor_portal.py) and its commit helper                  *)
(* (github_helper.py) as a state machine.                                  *)
(*                                                                         *)
(* The process configuration is fixed at start-up (module level            *)
(* assignments), the browser session carries the single flag logged_in,    *)
(* and every request occupies a slot: it arrives (Arrive), passes the      *)
(* login_required wrapper when the route has one, and then runs its        *)
(* handler.  Handlers are one action each, except where a blocking         *)
(* outbound call separates two steps that other requests can interleave    *)
(* with (commit_file: revision read, then put; generate_newsletter: lock   *)
(* check, then POST).  Every outbound call a request makes is appended to  *)
(* calls[r], so "no call was made" and "calls were made in this order"     *)
(* are statements about that log.  A request's inputs (form fields, JSON   *)
(* body) and the answers of the collaborators are drawn where the code     *)
(* reads them.  The clients of one run request the routes of one component *)
(* (workload), so that the state spaces of the components add up instead   *)
(* of multiplying; every route belongs to a workload.                      *)
(***************************************************************************)
EXTENDS Integers, Sequences, FiniteSets, TLC

VARIABLES
    EDITOR_PASSWORD,   \* "" when unset (login disabled), else the shared secret
    SECRET_KEY,        \* TRUE iff app.config['SECRET_KEY'] is set
    MOCK_MODE,         \* MOCK_MODE flag
    mailchimp,         \* TRUE iff the email-platform client was initialised
    client,            \* TRUE iff the AI-provider client was initialised
    GITHUB_TOKEN,      \* TRUE iff GITHUB_TOKEN is set
    session,           \* TRUE iff session['logged_in'] is True
    lockFile,          \* TRUE iff generation.lock exists
    newsletterDir,     \* names of the files in the local NEWSLETTER_DIR
    store,             \* version-control store: path id -> revision marker (0 = no file)
    active,            \* request slots in use by this specification
    workload,          \* the routes the clients of this run request
    pc,                \* slot -> position of the request
    req,               \* slot -> the request (route, id, url, inputs read so far)
    resp,              \* slot -> the response
    calls,             \* slot -> outbound calls made while handling the request
    loc,               \* slot -> handler locals
    authed             \* history: a correct-password login POST occurred, no logout since

cfgVars == <<EDITOR_PASSWORD, SECRET_KEY, MOCK_MODE, mailchimp, client, GITHUB_TOKEN>>
envVars == <<lockFile, newsletterDir, store>>
runVars == <<active, workload>>
vars == <<EDITOR_PASSWORD, SECRET_KEY, MOCK_MODE, mailchimp, client, GITHUB_TOKEN,
          session, lockFile, newsletterDir, store, active, workload, pc, req, resp,
          calls, loc, authed>>

----------------------------------------------------------------------------
(* Bounds and input domains *)

\* largest number of styleable elements in a newsletter document
MaxElems == 1
\* largest revision marker of a stored file
MaxRev == 2

Slots == {"r1", "r2"}
Ids == {"a.html", "b.html"}
Secret == "s3cret"
Passwords == {"missing", Secret, "wrong"}

ProtectedRoutes ==
    {"index", "editor", "save_newsletter", "ai_review_newsletter", "send_newsletter",
     "generate_newsletter", "generation_status", "generation_logs", "debug_files",
     "get_newsletters", "debug_newsletter_content"}
OpenRoutes ==
    {"login", "logout", "health_check", "test_endpoint", "template_debug",
     "env_check", "debug_backend"}
IdRoutes ==
    {"editor", "save_newsletter", "ai_review_newsletter", "send_newsletter",
     "debug_newsletter_content"}
\* the <newsletter_id> values requested of a route: the id names the file in
\* the version-control store, and is only passed on by the other routes
IdsOf(route) ==
    IF route = "save_newsletter" THEN Ids
    ELSE IF route \in IdRoutes THEN {"a.html"}
    ELSE {""}

\* A run's clients request the routes of one component, besides logging in
\* and out; the files and locks a component never looks at stay as they are.
Workloads ==
    {
     {"login", "logout", "index", "editor", "get_newsletters", "generate_newsletter",
      "generation_status", "generation_logs", "debug_files", "debug_newsletter_content",
      "health_check", "test_endpoint", "template_debug", "env_check", "debug_backend"},
     {"login", "logout", "save_newsletter"},
     {"login", "logout", "send_newsletter", "ai_review_newsletter"}
    }

\* request.url of a request: the route and, for the <newsletter_id> routes, the id
Url(route, id) == [route |-> route, id |-> id]
NoUrl == Url("", "")
IndexUrl == Url("index", "")
LoginUrl == Url("login", "")

----------------------------------------------------------------------------
(* Documents.  A newsletter body is described by what the portal's code    *)
(* looks at: whether it carries a <link> to newsletter.css (and whether    *)
(* the href is one the removal pattern matches), whether the literal       *)
(* '</head>' occurs, how many elements the stylesheet selects, whether a   *)
(* <style> block with the stylesheet was injected, and how many elements   *)
(* carry an inline style attribute.  The all-empty record is the empty     *)
(* string.                                                                 *)

Html(link, head, elems, style, inl) ==
    [link |-> link, head |-> head, elems |-> elems, style |-> style, inl |-> inl]
EmptyHtml == Html("none", FALSE, 0, FALSE, 0)
BackendDocs ==
    {Html(l, h, e, FALSE, 0) : l \in {"none", "quoted", "query"}, h \in BOOLEAN,
                               e \in 0..MaxElems}

\* Python values that may be None: <<>> is None, <<v>> is the value v
None == <<>>
Some(v) == <<v>>
\* truthiness of an optional document: None and "" are falsy
Truthy(c) == c # None /\ c[1] # EmptyHtml

----------------------------------------------------------------------------
(* Responses *)

Response(status, kind, msg) ==
    [status |-> status, kind |-> kind, msg |-> msg, reason |-> "", next |-> NoUrl,
     target |-> NoUrl, data |-> <<>>]
NoResponse == Response(0, "none", "")
\* redirect(url_for(target, next=next))
Redirect(target, next) == [Response(302, "redirect", "") EXCEPT !.target = target, !.next = next]
JsonOk(msg) == Response(200, "json", msg)
JsonData(msg, data) == [Response(200, "json", msg) EXCEPT !.data = data]
JsonError(status, msg) == Response(status, "json_error", msg)
\* a JSON error whose text is msg followed by the underlying failure's own text
JsonFailure(status, msg, reason) == [Response(status, "json_error", msg) EXCEPT !.reason = reason]
Page(status, msg, data) == [Response(status, "html", msg) EXCEPT !.data = data]
\* an exception that leaves the view function: Flask answers 500 with its own page
Unhandled(what) == Response(500, "exception", what)
\* werkzeug's HTTPException raised by request.json: answered by Flask itself
HttpAbort(status) == Response(status, "abort", "")

Call(svc, op, arg) == [svc |-> svc, op |-> op, arg |-> arg]

NoReq == [route |-> "", id |-> "", url |-> NoUrl, method |-> "", password |-> "missing",
          next |-> NoUrl, body |-> "unread", html_content |-> "unread",
          editor_notes |-> "unread", test_mode |-> FALSE]
NoLoc == [gate |-> "none", seen |-> FALSE, ran |-> FALSE, backend |-> "none",
          body |-> EmptyHtml, answer |-> 0, raised |-> FALSE, listing |-> None, html_content |-> None,
          inlined_html |-> None, css |-> "unread", styling |-> "none", sha |-> None,
          shaRead |-> "none", put |-> "none", commit_message |-> None, failAt |-> 0,
          locked |-> FALSE]

----------------------------------------------------------------------------
(* Initial state: the module-level set-up of both files *)

Init ==
    /\ EDITOR_PASSWORD \in {"", Secret}
    /\ SECRET_KEY \in BOOLEAN
    /\ MOCK_MODE \in BOOLEAN
    \* a client exists only when not MOCK_MODE and its API key is set
    /\ mailchimp \in IF MOCK_MODE THEN {FALSE} ELSE BOOLEAN
    /\ client \in IF MOCK_MODE THEN {FALSE} ELSE BOOLEAN
    /\ GITHUB_TOKEN \in BOOLEAN
    /\ session = FALSE
    /\ lockFile = FALSE
    /\ newsletterDir = {}
    /\ store = [i \in Ids |-> 0]
    /\ active = {"r1"}
    /\ workload \in Workloads
    /\ pc = [r \in Slots |-> "idle"]
    /\ req = [r \in Slots |-> NoReq]
    /\ resp = [r \in Slots |-> NoResponse]
    /\ calls = [r \in Slots |-> <<>>]
    /\ loc = [r \in Slots |-> NoLoc]
    /\ authed = FALSE

----------------------------------------------------------------------------
(* A request arrives in a free slot *)

Arrive(r) ==
    /\ r \in active
    /\ pc[r] \in {"idle", "done"}
    /\ \E route \in workload :
       \E id \in IdsOf(route) :
          /\ req' = [req EXCEPT ![r] = [NoReq EXCEPT !.route = route, !.id = id,
                                                     !.url = Url(route, id)]]
          /\ pc' = [pc EXCEPT ![r] = IF route \in ProtectedRoutes THEN "gate" ELSE route]
    /\ resp' = [resp EXCEPT ![r] = NoResponse]
    /\ calls' = [calls EXCEPT ![r] = <<>>]
    /\ loc' = [loc EXCEPT ![r] = NoLoc]
    /\ UNCHANGED <<cfgVars, envVars, session, runVars, authed>>

\* the handler of slot r returns rsp, having made the calls cs, with locals l
Return(r, rsp, cs, l) ==
    /\ pc' = [pc EXCEPT ![r] = "done"]
    /\ resp' = [resp EXCEPT ![r] = rsp]
    /\ calls' = [calls EXCEPT ![r] = calls[r] \o cs]
    /\ loc' = [loc EXCEPT ![r] = [l EXCEPT !.ran = TRUE]]

\* the handler of slot r blocks in an outbound call and continues at step
Continue(r, step, cs, l) ==
    /\ pc' = [pc EXCEPT ![r] = step]
    /\ calls' = [calls EXCEPT ![r] = calls[r] \o cs]
    /\ loc' = [loc EXCEPT ![r] = [l EXCEPT !.ran = TRUE]]
    /\ UNCHANGED resp

----------------------------------------------------------------------------
(* Authentication *)

\* session.get raises RuntimeError only outside a request context
SessionGetRaises == FALSE

\* decorated_function with the session check lost: every request passes
decorated_function_unchecked(password, key, logged_in) ==
    IF password = "" THEN "pass"
    ELSE IF ~key THEN "pass"
    ELSE "pass"

\* decorated_function without the secret-key test: the session is always asked
decorated_function_nokeytest(password, key, logged_in) ==
    IF password = "" THEN "pass"
    ELSE IF logged_in # TRUE THEN "redirect"
    ELSE "pass"

\* decorated_function: "pass" runs f, "redirect" answers with the login redirect
decorated_function(password, key, logged_in) ==
    IF password = "" THEN "pass"
    ELSE IF ~key THEN "pass"
    ELSE IF SessionGetRaises THEN "pass"
    ELSE IF logged_in # TRUE THEN "redirect"
    ELSE "pass"

login_required(r) ==
    /\ pc[r] = "gate"
    /\ LET d == decorated_function(EDITOR_PASSWORD, SECRET_KEY, session)
           l == [loc[r] EXCEPT !.gate = d, !.seen = session]
       IN IF d = "redirect"
          THEN /\ pc' = [pc EXCEPT ![r] = "done"]
               /\ resp' = [resp EXCEPT ![r] = Redirect(LoginUrl, req[r].url)]
               /\ loc' = [loc EXCEPT ![r] = l]
          ELSE /\ pc' = [pc EXCEPT ![r] = req[r].route]
               /\ loc' = [loc EXCEPT ![r] = l]
               /\ UNCHANGED resp
    /\ UNCHANGED <<cfgVars, envVars, session, runVars, req, calls, authed>>

\* the login view with the early return for a logged-in session lost
login_view_noearly(method, password, next, logged_in) ==
    IF EDITOR_PASSWORD = "" THEN [resp |-> Redirect(IndexUrl, NoUrl), session |-> logged_in]
    ELSE IF method = "POST"
    THEN IF password = EDITOR_PASSWORD
         THEN IF ~SECRET_KEY
              THEN [resp |-> Unhandled("RuntimeError"), session |-> logged_in]
              ELSE [resp |-> Redirect(IF next # NoUrl THEN next ELSE IndexUrl, NoUrl),
                    session |-> TRUE]
         ELSE [resp |-> Page(200, "Invalid password. Please try again.", <<>>),
               session |-> logged_in]
    ELSE [resp |-> Page(200, "login.html", <<>>), session |-> logged_in]

\* the login view: the response and the session flag it leaves.  Without a
\* secret key the session is Flask's null session: reads find nothing and any
\* write raises RuntimeError.
login_view(method, password, next, logged_in) ==
    IF EDITOR_PASSWORD = "" THEN [resp |-> Redirect(IndexUrl, NoUrl), session |-> logged_in]
    ELSE IF logged_in THEN [resp |-> Redirect(IndexUrl, NoUrl), session |-> logged_in]
    ELSE IF method = "POST"
    THEN IF password = EDITOR_PASSWORD
         THEN IF ~SECRET_KEY
              THEN [resp |-> Unhandled("RuntimeError"), session |-> logged_in]
              ELSE [resp |-> Redirect(IF next # NoUrl THEN next ELSE IndexUrl, NoUrl),
                    session |-> TRUE]
         ELSE [resp |-> Page(200, "Invalid password. Please try again.", <<>>),
               session |-> logged_in]
    ELSE [resp |-> Page(200, "login.html", <<>>), session |-> logged_in]

login(r) ==
    /\ pc[r] = "login"
    /\ \E method \in {"GET", "POST"} :
       \E password \in IF method = "POST" THEN Passwords ELSE {"missing"} :
       \E next \in {NoUrl, Url("editor", "a.html")} :
          LET v == login_view(method, password, next, session)
          IN /\ req' = [req EXCEPT ![r] = [@ EXCEPT !.method = method,
                                                    !.password = password, !.next = next]]
             /\ session' = v.session
             /\ authed' = IF method = "POST" /\ EDITOR_PASSWORD # ""
                              /\ password = EDITOR_PASSWORD
                           THEN TRUE ELSE authed
             /\ Return(r, v.resp, <<>>, [loc[r] EXCEPT !.seen = session])
    /\ UNCHANGED <<cfgVars, envVars, runVars>>

\* the logout view: session.pop, then the redirect to the login form
logout_view(logged_in) ==
    IF ~SECRET_KEY
    THEN [resp |-> Unhandled("RuntimeError"), session |-> logged_in]
    ELSE [resp |-> Redirect(LoginUrl, NoUrl), session |-> FALSE]

logout(r) ==
    /\ pc[r] = "logout"
    /\ LET v == logout_view(session)
       IN /\ session' = v.session
          /\ Return(r, v.resp, <<>>, loc[r])
    /\ authed' = FALSE
    /\ UNCHANGED <<cfgVars, envVars, runVars, req>>

----------------------------------------------------------------------------
(* Data functions: the newsletter store proxy *)

\* how a try block ends: it returns a value, raises, or runs off its end
Returned(v) == [k |-> "return", v |-> <<v>>]
Raised == [k |-> "raise", v |-> <<>>]
FellThrough == [k |-> "fall", v |-> <<>>]

\* what the backend's listing endpoint can answer
ListOutcomes == {"neterr", "status500", "undecodable", "nondict", "success_false", "success"}
Listings == {<<>>, <<"a.html">>, <<"b.html", "a.html">>}

\* the try block of get_all_newsletters
get_all_newsletters_try(outcome, listing) ==
    IF outcome = "neterr" THEN Raised                \* requests.get raises
    ELSE IF outcome # "status500"                    \* status_code == 200
    THEN IF outcome = "undecodable" THEN Raised      \* response.json() raises
         ELSE IF outcome = "nondict" THEN Raised     \* data.get raises
         ELSE IF outcome = "success" THEN Returned(listing)
         ELSE FellThrough
    ELSE FellThrough

\* get_all_newsletters: except Exception, then "return []"
get_all_newsletters(outcome, listing) ==
    LET t == get_all_newsletters_try(outcome, listing)
    IN [raised |-> FALSE,
        value |-> IF t.k = "return" THEN t.v[1] ELSE <<>>,
        calls |-> <<Call("backend", "GET /api/newsletters", <<>>)>>]

\* what the backend's per-item endpoint can answer: a status (or no answer) and a body
ErrorBodies == {EmptyHtml, Html("none", FALSE, 1, FALSE, 0)}
ContentOutcomes ==
    {[status |-> "neterr", body |-> EmptyHtml]}
    \cup {[status |-> "200", body |-> b] : b \in BackendDocs}
    \cup {[status |-> st, body |-> b] : st \in {"404", "500"}, b \in ErrorBodies}

\* the try block of get_newsletter_content taking every answer but 404 for the body
get_newsletter_content_try_not404(outcome) ==
    IF outcome.status = "neterr" THEN Raised
    ELSE IF outcome.status = "404" THEN FellThrough
    ELSE Returned(Some(outcome.body))

\* the try block of get_newsletter_content
get_newsletter_content_try(outcome) ==
    IF outcome.status = "neterr" THEN Raised
    ELSE IF outcome.status = "200" THEN Returned(Some(outcome.body))
    ELSE IF outcome.status = "404" THEN FellThrough
    ELSE FellThrough

\* get_newsletter_content: except Exception, then "return None"
get_newsletter_content(id, outcome) ==
    LET t == get_newsletter_content_try(outcome)
    IN [raised |-> FALSE,
        value |-> IF t.k = "return" THEN t.v[1] ELSE None,
        calls |-> <<Call("backend", "GET /newsletter", id)>>]

----------------------------------------------------------------------------
(* Page routes *)

index(r) ==
    /\ pc[r] = "index"
    /\ \E outcome \in ListOutcomes :
       \E listing \in IF outcome = "success" THEN Listings ELSE {<<>>} :
       \E rendered \in BOOLEAN :
          LET g == get_all_newsletters(outcome, listing)
              l == [loc[r] EXCEPT !.backend = outcome, !.raised = g.raised,
                                  !.listing = IF g.raised THEN None ELSE Some(g.value)]
          IN Return(r,
                    IF g.raised \/ ~rendered
                    THEN Page(200, "fallback page", <<>>)
                    ELSE Page(200, "index.html", g.value),
                    g.calls, l)
    /\ UNCHANGED <<cfgVars, envVars, session, runVars, req, authed>>

editor(r) ==
    /\ pc[r] = "editor"
    /\ \E outcome \in ContentOutcomes :
          LET g == get_newsletter_content(req[r].id, outcome)
              l == [loc[r] EXCEPT !.backend = outcome.status, !.body = outcome.body,
                                  !.raised = g.raised,
                                  !.html_content = g.value]
          IN Return(r,
                    IF g.raised THEN Unhandled("get_newsletter_content")
                    ELSE IF g.value = None THEN Page(404, "Newsletter not found", <<>>)
                    ELSE Page(200, "editor.html", g.value),
                    g.calls, l)
    /\ UNCHANGED <<cfgVars, envVars, session, runVars, req, authed>>

----------------------------------------------------------------------------
(* Commit proxy: save_newsletter and github_helper.commit_file *)

\* request.json: a JSON object, JSON that is no object (null, a list, a
\* string), or no JSON body at all
BodyKinds == {"object", "nonobject", "nojson"}
\* request.json without a JSON body raises werkzeug's BadRequest (400) or, in
\* later Flask versions, UnsupportedMediaType (415)
NoJsonStatus == {400, 415}
ContentFields == {"missing", "", "<p>hi</p>"}
NotesFields == {"missing", "fix typo"}

\* f"docs: update {newsletter_id}\n\nNotes: {data.get('editor_notes', 'n/a')}"
CommitMessage(id, notes) ==
    [subject |-> id, notes |-> IF notes = "missing" THEN "n/a" ELSE notes]

\* save_newsletter without the check of html_content
save_newsletter_entry_unvalidated(body, html_content) ==
    IF body = "nonobject" THEN [k |-> "return", resp |-> Unhandled("AttributeError")]
    ELSE IF ~GITHUB_TOKEN
    THEN [k |-> "return",
          resp |-> JsonFailure(500, "GitHub Save Failed",
                               "Server is not configured to save files.")]
    ELSE [k |-> "go", resp |-> NoResponse]

\* save_newsletter with commit_file's credential check lost
save_newsletter_entry_nocredcheck(body, html_content) ==
    IF body = "nonobject" THEN [k |-> "return", resp |-> Unhandled("AttributeError")]
    ELSE IF html_content \in {"missing", ""}
    THEN [k |-> "return", resp |-> JsonError(400, "No content")]
    ELSE [k |-> "go", resp |-> NoResponse]

\* save_newsletter up to the first outbound call: validation, then commit_file's
\* credential check.  "go" means commit_file goes on to read the revision marker.
save_newsletter_entry(body, html_content) ==
    IF body = "nonobject" THEN [k |-> "return", resp |-> Unhandled("AttributeError")]
    ELSE IF html_content \in {"missing", ""}
    THEN [k |-> "return", resp |-> JsonError(400, "No content")]
    ELSE IF ~GITHUB_TOKEN
    THEN [k |-> "return",
          resp |-> JsonFailure(500, "GitHub Save Failed",
                               "Server is not configured to save files.")]
    ELSE [k |-> "go", resp |-> NoResponse]

save_newsletter(r) ==
    /\ pc[r] = "save_newsletter"
    /\ \E body \in BodyKinds :
       \E html_content \in IF body = "object" THEN ContentFields ELSE {"unread"} :
       \E notes \in IF body = "object" THEN NotesFields ELSE {"unread"} :
       \E abort \in IF body = "nojson" THEN NoJsonStatus ELSE {0} :
          LET e == save_newsletter_entry(body, html_content)
              l == [loc[r] EXCEPT !.commit_message =
                        IF e.k = "go" THEN Some(CommitMessage(req[r].id, notes)) ELSE None]
          IN /\ req' = [req EXCEPT ![r] = [@ EXCEPT !.body = body,
                                                    !.html_content = html_content,
                                                    !.editor_notes = notes]]
             /\ IF body = "nojson" THEN Return(r, HttpAbort(abort), <<>>, l)
                ELSE IF e.k = "return" THEN Return(r, e.resp, <<>>, l)
                ELSE Continue(r, "get_file_sha", <<>>, l)
    /\ UNCHANGED <<cfgVars, envVars, session, runVars, authed>>

\* how the store's GET of the file can end: it answers from its state (200 with
\* the marker, or 404), the connection fails, it answers another error status,
\* or it answers 200 with a body that holds no "sha" (the path is a directory)
ShaOutcomes == {"answer", "neterr", "status500", "nosha"}

\* get_file_sha taking every failure of the read for "no such file"
get_file_sha_swallowing(outcome, marker) ==
    IF outcome = "answer" /\ marker # 0 THEN Returned(Some(marker))
    ELSE Returned(None)

\* get_file_sha: the marker (None on 404), or the exception it lets through
get_file_sha(outcome, marker) ==
    IF outcome = "answer"
    THEN IF marker = 0 THEN Returned(None)     \* HTTPError 404: file doesn't exist yet
         ELSE Returned(Some(marker))
    ELSE Raised                                \* re-raised, or never caught

commit_file_read(r) ==
    /\ pc[r] = "get_file_sha"
    /\ \E outcome \in ShaOutcomes :
          LET g == get_file_sha(outcome, store[req[r].id])
              cs == <<Call("github", "GET contents", req[r].id)>>
              l == [loc[r] EXCEPT !.shaRead = outcome,
                                  !.answer = IF outcome = "answer" THEN store[req[r].id]
                                             ELSE 0,
                                  !.sha = IF g.k = "return" THEN g.v[1] ELSE None]
          IN IF g.k = "raise"
             THEN Return(r, Unhandled("get_file_sha"), cs, l)
             ELSE Continue(r, "put", cs, l)
    /\ UNCHANGED <<cfgVars, envVars, session, runVars, req, authed>>

\* the body of the put: the marker is sent only when the read found one
PutData(message, sha) ==
    [message |-> message, sha |-> IF sha # None THEN sha ELSE None]

\* the store's verdict on a put carrying sha for a file whose marker is marker:
\* an update needs the current marker, a create needs the file to be absent
StoreAccepts(sha, marker) ==
    IF marker = 0 THEN sha = None ELSE sha = Some(marker)
StoreRefusal(sha, marker) ==
    IF sha = None THEN "sha wasn't supplied" ELSE "does not match"

\* how the put can end: the store answers from its state, it rejects the
\* request for another reason (401, 403, 422), the connection fails, or it
\* answers an error status with a body that is no JSON
PutOutcomes == {"answer", "rejected", "neterr", "badjson"}

\* commit_file from the put on: its result, or the exception it lets through
commit_file_put(outcome, sha, marker) ==
    IF outcome \in {"neterr", "badjson"} THEN Raised
    ELSE IF outcome = "answer" /\ StoreAccepts(sha, marker)
    THEN Returned([success |-> TRUE, error |-> ""])
    ELSE Returned([success |-> FALSE,
                   error |-> IF outcome = "rejected" THEN "Bad credentials"
                             ELSE StoreRefusal(sha, marker)])

\* save_newsletter answering with success whatever commit_file returned
save_newsletter_result_always(result) ==
    JsonOk("Saved to GitHub.")

\* save_newsletter's last two lines
save_newsletter_result(result) ==
    IF result.success THEN JsonOk("Saved to GitHub.")
    ELSE JsonFailure(500, "GitHub Save Failed", result.error)

commit_file(r) ==
    /\ pc[r] = "put"
    /\ \E outcome \in PutOutcomes :
          LET id == req[r].id
              c == commit_file_put(outcome, loc[r].sha, store[id])
              accepted == c.k = "return" /\ c.v[1].success
              cs == <<Call("github", "PUT contents",
                           PutData(loc[r].commit_message, loc[r].sha))>>
              l == [loc[r] EXCEPT !.put = outcome]
          IN /\ accepted => store[id] < MaxRev
             /\ store' = IF accepted THEN [store EXCEPT ![id] = @ + 1] ELSE store
             /\ Return(r,
                       IF c.k = "raise" THEN Unhandled("requests.put")
                       ELSE save_newsletter_result(c.v[1]),
                       cs, l)
    /\ UNCHANGED <<cfgVars, lockFile, newsletterDir, session, runVars, req, authed>>

\* another writer (the generation backend, another editor) commits to the file
ExternalCommit ==
    /\ "save_newsletter" \in workload
    /\ \E id \in Ids :
          /\ store[id] < MaxRev
          /\ store' = [store EXCEPT ![id] = @ + 1]
    /\ UNCHANGED <<cfgVars, lockFile, newsletterDir, session, runVars, pc, req, resp,
                   calls, loc, authed>>

----------------------------------------------------------------------------
(* AI review proxy *)

\* how the review's try block can end: the provider returns a completion, or
\* anything in the block raises
AiOutcomes == {"ok", "error"}

\* ai_review_newsletter with the simulated-mode check ahead of the not-found check
ai_review_view_mockfirst(content, outcome) ==
    IF MOCK_MODE \/ ~client
    THEN [resp |-> JsonOk("[MOCK] Looks great!"), calls |-> <<>>]
    ELSE IF ~Truthy(content) THEN [resp |-> JsonError(404, "Not found"), calls |-> <<>>]
    ELSE [resp |-> IF outcome = "ok" THEN JsonOk("review")
                   ELSE JsonFailure(500, "AI review failed", "provider error"),
          calls |-> <<Call("anthropic", "messages.create", content[1])>>]

\* ai_review_newsletter after the content fetch
ai_review_view(content, outcome) ==
    IF ~Truthy(content) THEN [resp |-> JsonError(404, "Not found"), calls |-> <<>>]
    ELSE IF MOCK_MODE \/ ~client
    THEN [resp |-> JsonOk("[MOCK] Looks great!"), calls |-> <<>>]
    ELSE [resp |-> IF outcome = "ok" THEN JsonOk("review")
                   ELSE JsonFailure(500, "AI review failed", "provider error"),
          calls |-> <<Call("anthropic", "messages.create", content[1])>>]

ai_review_newsletter(r) ==
    /\ pc[r] = "ai_review_newsletter"
    /\ \E fetched \in ContentOutcomes :
       \E outcome \in AiOutcomes :
          LET g == get_newsletter_content(req[r].id, fetched)
              v == ai_review_view(g.value, outcome)
              l == [loc[r] EXCEPT !.backend = fetched.status, !.body = fetched.body,
                                  !.raised = g.raised,
                                  !.html_content = g.value]
          IN Return(r, IF g.raised THEN Unhandled("get_newsletter_content") ELSE v.resp,
                    g.calls \o (IF g.raised THEN <<>> ELSE v.calls), l)
    /\ UNCHANGED <<cfgVars, envVars, session, runVars, req, authed>>

----------------------------------------------------------------------------
(* Send pipeline *)

\* the CSS asset: no file, an empty file, or a file with rules
CssFiles == {"absent", "empty", "present"}
\* the step of the styling stage that raises, if any
StylingSteps == {"load", "strip", "inject", "inline"}
\* the steps that run for a given asset
StepsRun(css) ==
    IF css = "absent" THEN {"strip"}
    ELSE IF css = "empty" THEN {"load", "strip"}
    ELSE StylingSteps

\* re.sub of the <link ... href="...newsletter.css"> pattern: a link whose href
\* does not end in the quoted file name is not matched
RemoveLink(h) == [h EXCEPT !.link = IF @ = "quoted" THEN "none" ELSE @]
\* str.replace('</head>', '<style ...>css</style></head>')
InjectStyle(h) == [h EXCEPT !.style = h.head]
\* Premailer(...).transform(): the rules of the style block become style
\* attributes, and the style block is dropped (keep_style_tags=False)
Transform(h) == [h EXCEPT !.inl = IF h.style THEN h.elems ELSE @, !.style = FALSE]

\* the styling stage falling back to the html it had worked on so far
Styling_partial(html_content, css, fail) ==
    IF fail \in StepsRun(css)
    THEN IF fail \in {"load", "strip"} THEN html_content
         ELSE IF fail = "inject" THEN RemoveLink(html_content)
         ELSE InjectStyle(RemoveLink(html_content))
    ELSE IF css = "present" THEN Transform(InjectStyle(RemoveLink(html_content)))
    ELSE html_content

\* the styling stage of send_newsletter: the value of inlined_html after it
Styling(html_content, css, fail) ==
    IF fail \in StepsRun(css) THEN html_content      \* except Exception: the original
    ELSE IF css = "present" THEN Transform(InjectStyle(RemoveLink(html_content)))
    ELSE html_content                                \* "Default to original html"

\* the email platform's calls, in order; failAt is the call that raises (0: none)
\* and how is what it raises
DispatchHow == {"ApiClientError", "other"}

\* the dispatch stage testing MOCK_MODE alone for the simulated mode
Dispatch_mockonly(inlined_html, body, test_mode, abort, failAt, how) ==
    LET create == Call("mailchimp", "campaigns.create", <<>>)
        content == Call("mailchimp", "campaigns.set_content", inlined_html)
        dispatch == IF test_mode
                    THEN Call("mailchimp", "campaigns.send_test_email", "EDITOR_EMAIL")
                    ELSE Call("mailchimp", "campaigns.send", <<>>)
        BadBody == IF body = "nojson" THEN HttpAbort(abort) ELSE Unhandled("AttributeError")
    IN IF MOCK_MODE
       THEN [resp |-> IF body # "object" THEN BadBody
                      ELSE IF test_mode THEN JsonOk("[MOCK] Test email sent!")
                      ELSE JsonOk("[MOCK] Newsletter sent!"),
             calls |-> <<>>]
       ELSE IF body # "object" THEN [resp |-> BadBody, calls |-> <<create, content>>]
       ELSE [resp |-> IF test_mode THEN JsonOk("Test email sent!")
                      ELSE JsonOk("Newsletter sent successfully!"),
             calls |-> <<create, content, dispatch>>]

\* the dispatch stage going on to the full-list send after the test send
Dispatch_fallthrough(inlined_html, body, test_mode, abort, failAt, how) ==
    LET create == Call("mailchimp", "campaigns.create", <<>>)
        content == Call("mailchimp", "campaigns.set_content", inlined_html)
        test == Call("mailchimp", "campaigns.send_test_email", "EDITOR_EMAIL")
        send == Call("mailchimp", "campaigns.send", <<>>)
        dispatch == IF test_mode THEN <<test, send>> ELSE <<send>>
        Failed == IF how = "ApiClientError"
                  THEN JsonFailure(500, "Mailchimp error", "platform error")
                  ELSE Unhandled("mailchimp")
        BadBody == IF body = "nojson" THEN HttpAbort(abort) ELSE Unhandled("AttributeError")
    IN IF MOCK_MODE \/ ~mailchimp
       THEN [resp |-> IF body # "object" THEN BadBody
                      ELSE IF test_mode THEN JsonOk("[MOCK] Test email sent!")
                      ELSE JsonOk("[MOCK] Newsletter sent!"),
             calls |-> <<>>]
       ELSE IF failAt = 1 THEN [resp |-> Failed, calls |-> <<create>>]
       ELSE IF failAt = 2 THEN [resp |-> Failed, calls |-> <<create, content>>]
       ELSE IF body # "object" THEN [resp |-> BadBody, calls |-> <<create, content>>]
       ELSE IF failAt = 3 THEN [resp |-> Failed, calls |-> <<create, content>> \o dispatch]
       ELSE [resp |-> IF test_mode THEN JsonOk("Test email sent!")
                      ELSE JsonOk("Newsletter sent successfully!"),
             calls |-> <<create, content>> \o dispatch]

\* the dispatch stage of send_newsletter
Dispatch(inlined_html, body, test_mode, abort, failAt, how) ==
    LET create == Call("mailchimp", "campaigns.create", <<>>)
        content == Call("mailchimp", "campaigns.set_content", inlined_html)
        dispatch == IF test_mode
                    THEN Call("mailchimp", "campaigns.send_test_email", "EDITOR_EMAIL")
                    ELSE Call("mailchimp", "campaigns.send", <<>>)
        Failed == IF how = "ApiClientError"
                  THEN JsonFailure(500, "Mailchimp error", "platform error")
                  ELSE Unhandled("mailchimp")
        BadBody == IF body = "nojson" THEN HttpAbort(abort) ELSE Unhandled("AttributeError")
    IN IF MOCK_MODE \/ ~mailchimp
       THEN [resp |-> IF body # "object" THEN BadBody
                      ELSE IF test_mode THEN JsonOk("[MOCK] Test email sent!")
                      ELSE JsonOk("[MOCK] Newsletter sent!"),
             calls |-> <<>>]
       ELSE IF failAt = 1 THEN [resp |-> Failed, calls |-> <<create>>]
       ELSE IF failAt = 2 THEN [resp |-> Failed, calls |-> <<create, content>>]
       ELSE IF body # "object" THEN [resp |-> BadBody, calls |-> <<create, content>>]
       ELSE IF failAt = 3 THEN [resp |-> Failed, calls |-> <<create, content, dispatch>>]
       ELSE [resp |-> IF test_mode THEN JsonOk("Test email sent!")
                      ELSE JsonOk("Newsletter sent successfully!"),
             calls |-> <<create, content, dispatch>>]

send_newsletter(r) ==
    /\ pc[r] = "send_newsletter"
    /\ \E fetched \in ContentOutcomes :
          LET g == get_newsletter_content(req[r].id, fetched)
              l == [loc[r] EXCEPT !.backend = fetched.status, !.body = fetched.body,
                                  !.raised = g.raised,
                                  !.html_content = g.value]
          IN IF g.raised THEN /\ Return(r, Unhandled("get_newsletter_content"), g.calls, l)
                              /\ UNCHANGED req
             ELSE IF ~Truthy(g.value)
             THEN /\ Return(r, JsonError(404, "Newsletter not found"), g.calls, l)
                  /\ UNCHANGED req
             ELSE \E css \in CssFiles :
                  \E fail \in {"none"} \cup StepsRun(css) :
                  \E failAt \in IF MOCK_MODE \/ ~mailchimp THEN {0} ELSE 0..3 :
                  \E how \in IF failAt = 0 THEN {"ApiClientError"} ELSE DispatchHow :
                  \E body \in IF failAt \in {1, 2} THEN {"unread"} ELSE BodyKinds :
                  \E test_mode \in IF body = "object" THEN BOOLEAN ELSE {FALSE} :
                  \E abort \in IF body = "nojson" THEN NoJsonStatus ELSE {0} :
                     LET inlined == Styling(g.value[1], css, fail)
                         d == Dispatch(inlined, body, test_mode, abort, failAt, how)
                     IN /\ (failAt = 3) => (body = "object")
                        /\ req' = [req EXCEPT ![r] = [@ EXCEPT !.body = body,
                                                               !.test_mode = test_mode]]
                        /\ Return(r, d.resp, g.calls \o d.calls,
                                  [l EXCEPT !.css = css, !.styling = fail,
                                            !.inlined_html = Some(inlined),
                                            !.failAt = failAt])
    /\ UNCHANGED <<cfgVars, envVars, session, runVars, authed>>

----------------------------------------------------------------------------
(* Generation trigger *)

\* generate_newsletter with the lock check lost
generate_newsletter_entry_nolockcheck(lock) ==
    IF MOCK_MODE
    THEN [k |-> "return", resp |-> JsonOk("[MOCK] Newsletter generated!"), lock |-> lock]
    ELSE [k |-> "go", resp |-> NoResponse, lock |-> lock]

\* generate_newsletter taking the lock itself when it goes on to the POST
generate_newsletter_entry_locking(lock) ==
    IF MOCK_MODE
    THEN [k |-> "return", resp |-> JsonOk("[MOCK] Newsletter generated!"), lock |-> lock]
    ELSE IF lock
    THEN [k |-> "return",
          resp |-> JsonError(409, "Newsletter generation is already in progress."),
          lock |-> lock]
    ELSE [k |-> "go", resp |-> NoResponse, lock |-> TRUE]

\* generate_newsletter up to the blocking POST: MOCK_MODE, then the lock check.
\* lock is whether generation.lock exists; the result's lock is whether it
\* exists afterwards (the file is tested with os.path.exists, nothing more).
generate_newsletter_entry(lock) ==
    IF MOCK_MODE
    THEN [k |-> "return", resp |-> JsonOk("[MOCK] Newsletter generated!"), lock |-> lock]
    ELSE IF lock
    THEN [k |-> "return",
          resp |-> JsonError(409, "Newsletter generation is already in progress."),
          lock |-> lock]
    ELSE [k |-> "go", resp |-> NoResponse, lock |-> lock]

\* loc.locked keeps whether generation.lock existed when the handler ran
generate_newsletter(r) ==
    /\ pc[r] = "generate_newsletter"
    /\ LET e == generate_newsletter_entry(lockFile)
           l == [loc[r] EXCEPT !.locked = lockFile]
       IN /\ lockFile' = e.lock
          /\ IF e.k = "return" THEN Return(r, e.resp, <<>>, l)
             ELSE Continue(r, "generate_post", <<>>, l)
    /\ UNCHANGED <<cfgVars, newsletterDir, store, session, runVars, req, authed>>

\* what the backend's generate endpoint can answer
GenerateOutcomes ==
    {"neterr", "status500", "undecodable", "nondict", "success_false", "success"}

\* generate_newsletter from the POST's answer on
generate_newsletter_result(outcome) ==
    IF outcome \in {"neterr", "undecodable", "nondict"}
    THEN JsonFailure(500, "Failed to generate newsletter", outcome)
    ELSE IF outcome = "status500" THEN JsonFailure(500, "API call failed", "status 500")
    ELSE IF outcome = "success_false"
    THEN JsonFailure(500, "Backend generation failed", "Unknown error")
    ELSE JsonOk("Newsletter generated successfully!")

generate_post(r) ==
    /\ pc[r] = "generate_post"
    /\ \E outcome \in GenerateOutcomes :
       \E id \in IF outcome = "success" THEN Ids ELSE {""} :
          LET post == Call("backend", "POST /api/generate", <<>>)
              write == Call("localfs", "write", id)
          IN /\ newsletterDir' = IF outcome = "success" THEN newsletterDir \cup {id}
                                 ELSE newsletterDir
             /\ Return(r, generate_newsletter_result(outcome),
                       IF outcome = "success" THEN <<post, write>> ELSE <<post>>,
                       [loc[r] EXCEPT !.backend = outcome])
    /\ UNCHANGED <<cfgVars, lockFile, store, session, runVars, req, authed>>

\* the external generation process creates and removes generation.lock
LockFileChanges ==
    /\ "generate_newsletter" \in workload
    /\ lockFile' = ~lockFile
    /\ UNCHANGED <<cfgVars, newsletterDir, store, session, runVars, pc, req, resp,
                   calls, loc, authed>>

----------------------------------------------------------------------------
(* Status, listing and diagnostics routes *)

generation_status(r) ==
    /\ pc[r] = "generation_status"
    /\ \/ /\ lockFile
          /\ Return(r, JsonOk("in_progress"), <<>>, loc[r])
       \/ /\ ~lockFile
          /\ \E f \in newsletterDir :
                Return(r, JsonData("completed", <<f>>),
                       <<Call("localfs", "listdir", <<>>)>>, loc[r])
       \/ /\ ~lockFile /\ newsletterDir = {}
          /\ Return(r, JsonOk("idle"), <<Call("localfs", "listdir", <<>>)>>, loc[r])
    /\ UNCHANGED <<cfgVars, envVars, session, runVars, req, authed>>

LogFiles == {"final", "regular", "none", "unreadable"}

generation_logs(r) ==
    /\ pc[r] = "generation_logs"
    /\ \E log \in LogFiles :
          Return(r, IF log = "unreadable" THEN JsonFailure(500, "Failed to read logs", log)
                    ELSE JsonData("logs", <<log>>),
                 <<>>, loc[r])
    /\ UNCHANGED <<cfgVars, envVars, session, runVars, req, authed>>

debug_files(r) ==
    /\ pc[r] = "debug_files"
    /\ Return(r, JsonData("files", <<lockFile, newsletterDir>>),
              <<Call("localfs", "listdir", <<>>)>>, loc[r])
    /\ UNCHANGED <<cfgVars, envVars, session, runVars, req, authed>>

\* /api/newsletters: the listing is read from the local NEWSLETTER_DIR
get_newsletters(r) ==
    /\ pc[r] = "get_newsletters"
    /\ Return(r, JsonData("newsletters", <<newsletterDir>>),
              <<Call("localfs", "listdir", <<>>)>>,
              [loc[r] EXCEPT !.listing = Some(<<newsletterDir>>)])
    /\ UNCHANGED <<cfgVars, envVars, session, runVars, req, authed>>

debug_newsletter_content(r) ==
    /\ pc[r] = "debug_newsletter_content"
    /\ \E fetched \in ContentOutcomes :
          LET g == get_newsletter_content(req[r].id, fetched)
              l == [loc[r] EXCEPT !.backend = fetched.status, !.body = fetched.body,
                                  !.raised = g.raised,
                                  !.html_content = g.value]
          IN Return(r, JsonData("debug_info", <<g.value # None, req[r].id \in newsletterDir>>),
                    <<Call("backend", "GET /newsletter", req[r].id)>> \o g.calls
                        \o <<Call("localfs", "exists", req[r].id)>>,
                    l)
    /\ UNCHANGED <<cfgVars, envVars, session, runVars, req, authed>>

health_check(r) ==
    /\ pc[r] = "health_check"
    /\ Return(r, JsonOk("healthy"), <<>>, loc[r])
    /\ UNCHANGED <<cfgVars, envVars, session, runVars, req, authed>>

test_endpoint(r) ==
    /\ pc[r] = "test_endpoint"
    /\ Return(r, JsonOk("Flask is working"), <<>>, loc[r])
    /\ UNCHANGED <<cfgVars, envVars, session, runVars, req, authed>>

template_debug(r) ==
    /\ pc[r] = "template_debug"
    /\ Return(r, JsonOk("debug_info"), <<>>, loc[r])
    /\ UNCHANGED <<cfgVars, envVars, session, runVars, req, authed>>

env_check(r) ==
    /\ pc[r] = "env_check"
    /\ Return(r, JsonData("ok", <<SECRET_KEY, EDITOR_PASSWORD # "">>), <<>>, loc[r])
    /\ UNCHANGED <<cfgVars, envVars, session, runVars, req, authed>>

debug_backend(r) ==
    /\ pc[r] = "debug_backend"
    /\ \E health \in {"200", "500", "neterr"} :
          Return(r, JsonData("backend_status", <<health>>),
                 <<Call("backend", "GET /health", <<>>)>>, loc[r])
    /\ UNCHANGED <<cfgVars, envVars, session, runVars, req, authed>>

----------------------------------------------------------------------------
(* Specification *)

Next ==
    \/ \E r \in Slots : Arrive(r)
    \/ \E r \in Slots : login_required(r)
    \/ \E r \in Slots : login(r)
    \/ \E r \in Slots : logout(r)
    \/ \E r \in Slots : index(r)
    \/ \E r \in Slots : editor(r)
    \/ \E r \in Slots : save_newsletter(r)
    \/ \E r \in Slots : commit_file_read(r)
    \/ \E r \in Slots : commit_file(r)
    \/ \E r \in Slots : ai_review_newsletter(r)
    \/ \E r \in Slots : send_newsletter(r)
    \/ \E r \in Slots : generate_newsletter(r)
    \/ \E r \in Slots : generate_post(r)
    \/ \E r \in Slots : generation_status(r)
    \/ \E r \in Slots : generation_logs(r)
    \/ \E r \in Slots : debug_files(r)
    \/ \E r \in Slots : get_newsletters(r)
    \/ \E r \in Slots : debug_newsletter_content(r)
    \/ \E r \in Slots : health_check(r)
    \/ \E r \in Slots : test_endpoint(r)
    \/ \E r \in Slots : template_debug(r)
    \/ \E r \in Slots : env_check(r)
    \/ \E r \in Slots : debug_backend(r)
    \/ ExternalCommit
    \/ LockFileChanges

Spec == Init /\ [][Next]_vars

----------------------------------------------------------------------------
(* Two clients at once.  The server handles requests in parallel (threads  *)
(* or worker processes), so the steps of two requests interleave at their  *)
(* blocking calls.  Each of these specifications runs both slots on the    *)
(* routes of one component; the credentials of the other components are    *)
(* left unset.                                                             *)

InitGenerate ==
    /\ EDITOR_PASSWORD \in {"", Secret}
    /\ SECRET_KEY \in BOOLEAN
    /\ MOCK_MODE \in BOOLEAN
    /\ mailchimp = FALSE
    /\ client = FALSE
    /\ GITHUB_TOKEN = FALSE
    /\ session = FALSE
    /\ lockFile = FALSE
    /\ newsletterDir = {}
    /\ store = [i \in Ids |-> 0]
    /\ active = Slots
    /\ workload = {"login", "generate_newsletter"}
    /\ pc = [r \in Slots |-> "idle"]
    /\ req = [r \in Slots |-> NoReq]
    /\ resp = [r \in Slots |-> NoResponse]
    /\ calls = [r \in Slots |-> <<>>]
    /\ loc = [r \in Slots |-> NoLoc]
    /\ authed = FALSE

NextGenerate ==
    \/ \E r \in Slots : Arrive(r)
    \/ \E r \in Slots : login_required(r)
    \/ \E r \in Slots : login(r)
    \/ \E r \in Slots : generate_newsletter(r)
    \/ \E r \in Slots : generate_post(r)
    \/ LockFileChanges

SpecGenerate == InitGenerate /\ [][NextGenerate]_vars

\* two editors saving; the puts of the two requests are the only writes
InitSave ==
    /\ EDITOR_PASSWORD \in {"", Secret}
    /\ SECRET_KEY \in BOOLEAN
    /\ MOCK_MODE = FALSE
    /\ mailchimp = FALSE
    /\ client = FALSE
    /\ GITHUB_TOKEN \in BOOLEAN
    /\ session = FALSE
    /\ lockFile = FALSE
    /\ newsletterDir = {}
    /\ store = [i \in Ids |-> 0]
    /\ active = Slots
    /\ workload = {"login", "save_newsletter"}
    /\ pc = [r \in Slots |-> "idle"]
    /\ req = [r \in Slots |-> NoReq]
    /\ resp = [r \in Slots |-> NoResponse]
    /\ calls = [r \in Slots |-> <<>>]
    /\ loc = [r \in Slots |-> NoLoc]
    /\ authed = FALSE

NextSave ==
    \/ \E r \in Slots : Arrive(r)
    \/ \E r \in Slots : login_required(r)
    \/ \E r \in Slots : login(r)
    \/ \E r \in Slots : save_newsletter(r)
    \/ \E r \in Slots : commit_file_read(r)
    \/ \E r \in Slots : commit_file(r)

SpecSave == InitSave /\ [][NextSave]_vars

----------------------------------------------------------------------------
(* Claims *)

\* slot r holds a request for a wrapped route that login_required has decided
Gated(r) == req[r].route \in ProtectedRoutes /\ loc[r].gate # "none"
\* slot r holds a finished request for route
Finished(r, route) == pc[r] = "done" /\ req[r].route = route
\* the calls of slot r to a service
CallsTo(r, svc) == {i \in 1..Len(calls[r]) : calls[r][i].svc = svc}
\* the calls of slot r of one operation
CallsOf(r, op) == {i \in 1..Len(calls[r]) : calls[r][i].op = op}

\* C1: with EDITOR_PASSWORD and SECRET_KEY both configured, the handler of a
\* wrapped route runs (and makes its outbound calls) if and only if
\* session.logged_in was true when the wrapper looked; otherwise the response
\* is the redirect to the login form with next = the request's URL.
C1_HandlerRunsIffLoggedIn ==
    \A r \in Slots :
        (EDITOR_PASSWORD # "" /\ SECRET_KEY /\ Gated(r)) =>
            /\ (loc[r].ran \/ calls[r] # <<>> \/ pc[r] # "done") => loc[r].seen
            /\ (loc[r].seen /\ pc[r] = "done") => loc[r].ran
            /\ ~loc[r].seen => /\ pc[r] = "done"
                               /\ resp[r] = Redirect(LoginUrl, req[r].url)

\* a send request of a browser that is not logged in was redirected to the
\* login form, carrying the send URL
C1_Witness ==
    /\ EDITOR_PASSWORD # "" /\ SECRET_KEY /\ ~session
    /\ Finished("r1", "send_newsletter")
    /\ resp["r1"].kind = "redirect"
    /\ resp["r1"].target = LoginUrl
    /\ resp["r1"].next = Url("send_newsletter", "a.html")
    /\ calls["r1"] = <<>>

\* C2: the wrapper lets a request through without a logged-in session in
\* exactly two configurations: no EDITOR_PASSWORD (whatever the session
\* holds), and EDITOR_PASSWORD without SECRET_KEY; in both no request is
\* redirected to the login form.
C2_GateOpenExactlyWhenMisconfigured ==
    /\ \A k \in BOOLEAN, s \in BOOLEAN : decorated_function("", k, s) = "pass"
    /\ \A s \in BOOLEAN : decorated_function(Secret, FALSE, s) = "pass"
    /\ \A r \in Slots :
          Gated(r) =>
             /\ (EDITOR_PASSWORD = "" \/ ~SECRET_KEY) =>
                   /\ loc[r].gate = "pass"
                   /\ resp[r].kind # "redirect"
                   /\ pc[r] = "done" => loc[r].ran
             /\ (loc[r].gate = "pass" /\ ~loc[r].seen) =>
                   (EDITOR_PASSWORD = "" \/ ~SECRET_KEY)

\* with a password but no secret key, a save of a browser that never logged
\* in reached the version-control store
C2_Witness ==
    /\ EDITOR_PASSWORD # "" /\ ~SECRET_KEY
    /\ Finished("r1", "save_newsletter")
    /\ ~loc["r1"].seen
    /\ CallsOf("r1", "PUT contents") # {}

\* a step that changes the session flag is the end of a login POST with the
\* configured password (setting it) or of a logout (clearing it)
FlagChangedByLoginOrLogout ==
    (session' # session) =>
        \E r \in Slots :
            /\ pc'[r] = "done"
            /\ \/ /\ pc[r] = "login" /\ session'
                  /\ req'[r].method = "POST"
                  /\ EDITOR_PASSWORD # "" /\ req'[r].password = EDITOR_PASSWORD
               \/ pc[r] = "logout" /\ ~session'

\* the login form, re-rendered with the error
InvalidPassword == Page(200, "Invalid password. Please try again.", <<>>)
\* slot r holds a finished login POST whose password is not the configured one
WrongPasswordPost(r) ==
    /\ Finished(r, "login") /\ req[r].method = "POST"
    /\ EDITOR_PASSWORD # "" /\ req[r].password # EDITOR_PASSWORD

\* C3 as stated, in its sentence on the wrong password: every login POST
\* with a wrong password re-renders the form with an error.
C3_Original ==
    \A r \in Slots : WrongPasswordPost(r) => resp[r] = InvalidPassword

\* C3 as amended: with a secret key, logged_in is true exactly when a login
\* POST with the configured password occurred and no logout since; without a
\* secret key the flag is never set; a wrong-password POST leaves the flag as
\* it was, re-rendering the form with the error when the session is not
\* logged in and redirecting to the index when it is; only login and logout
\* change the flag.
C3_SessionFlag ==
    /\ [](SECRET_KEY => (session <=> authed))
    /\ [](~SECRET_KEY => ~session)
    /\ [](\A r \in Slots :
            WrongPasswordPost(r) =>
                resp[r] = IF loc[r].seen THEN Redirect(IndexUrl, NoUrl)
                          ELSE InvalidPassword)
    /\ [][FlagChangedByLoginOrLogout]_vars

\* a logged-in browser posted a wrong password to /login: it was redirected
\* to the index and is still logged in
C3_Witness ==
    /\ session /\ authed
    /\ WrongPasswordPost("r1")
    /\ req["r1"].password = "wrong"
    /\ resp["r1"] = Redirect(IndexUrl, NoUrl)

\* the routes that read one newsletter through get_newsletter_content
ContentRoutes ==
    {"editor", "ai_review_newsletter", "send_newsletter", "debug_newsletter_content"}

\* C4: on every outcome of the backend call but a successful one,
\* get_all_newsletters returns [] and get_newsletter_content returns None;
\* neither raises, neither reads the local newsletter directory, and
\* get_newsletter_content returns the response body only on HTTP 200.
C4_BackendFailureGivesEmptyOrNone ==
    \A r \in Slots :
        (pc[r] = "done" /\ loc[r].ran) =>
            /\ req[r].route = "index" =>
                  /\ ~loc[r].raised
                  /\ loc[r].backend # "success" => loc[r].listing = Some(<<>>)
                  /\ CallsTo(r, "localfs") = {}
            /\ req[r].route \in ContentRoutes =>
                  /\ ~loc[r].raised
                  /\ loc[r].backend # "200" => loc[r].html_content = None
                  /\ loc[r].html_content # None =>
                        /\ loc[r].backend = "200"
                        /\ loc[r].html_content = Some(loc[r].body)
                  /\ req[r].route # "debug_newsletter_content" => CallsTo(r, "localfs") = {}

\* the backend answered 500 with a body: the editor route found None and
\* answered 404
C4_Witness ==
    /\ Finished("r1", "editor")
    /\ loc["r1"].backend = "500"
    /\ loc["r1"].body # EmptyHtml
    /\ loc["r1"].html_content = None
    /\ resp["r1"].status = 404

\* C5: the portal keeps no newsletter content between requests: nothing is
\* written to the local newsletter directory, and index, editor,
\* /api/newsletters, send and review take their data from a backend query made
\* in the same request and never from local files.
C5_NoLocalNewsletterContent ==
    /\ newsletterDir = {}
    /\ \A r \in Slots :
          (pc[r] = "done" /\ loc[r].ran
             /\ req[r].route \in {"index", "editor", "get_newsletters", "send_newsletter",
                                  "ai_review_newsletter"}) =>
                /\ CallsTo(r, "backend") # {}
                /\ CallsTo(r, "localfs") = {}

\* C6: a save whose html_content is empty or missing is answered 400 and
\* sends nothing to the version-control store, for every id and editor_notes.
C6_EmptyContentIs400 ==
    \A r \in Slots :
        (req[r].route = "save_newsletter" /\ loc[r].ran) =>
            /\ (req[r].body = "object" /\ req[r].html_content \in {"missing", ""}) =>
                  /\ pc[r] = "done"
                  /\ resp[r] = JsonError(400, "No content")
            /\ req[r].html_content # "<p>hi</p>" => CallsTo(r, "github") = {}

\* with the token configured, a save of b.html with empty content and notes
\* was answered 400
C6_Witness ==
    /\ GITHUB_TOKEN
    /\ Finished("r1", "save_newsletter")
    /\ req["r1"].id = "b.html"
    /\ req["r1"].html_content = ""
    /\ req["r1"].editor_notes = "fix typo"
    /\ resp["r1"].status = 400
    /\ calls["r1"] = <<>>

\* C7: a save with non-empty content ends either in the success response (the
\* store accepted the put) or in a 500 JSON error carrying the failure's
\* reason; without credentials nothing is sent to the store.
C7_SaveSucceedsOrExplains ==
    \A r \in Slots :
        (Finished(r, "save_newsletter") /\ loc[r].ran
           /\ req[r].html_content = "<p>hi</p>") =>
              /\ \/ /\ resp[r] = JsonOk("Saved to GitHub.")
                    /\ loc[r].put = "answer"
                 \/ /\ resp[r].status = 500
                    /\ resp[r].kind = "json_error"
                    /\ resp[r].reason # ""
              /\ ~GITHUB_TOKEN => CallsTo(r, "github") = {}

\* C8: in commit_file with credentials, the marker read comes before the put,
\* the put carries the marker exactly when the read found the file, there is
\* at most one put, and no put follows a read that failed otherwise than 404.
C8_ReadThenPut ==
    \A r \in Slots :
        (req[r].route = "save_newsletter" /\ loc[r].ran) =>
            LET gets == CallsOf(r, "GET contents")
                puts == CallsOf(r, "PUT contents")
            IN /\ Cardinality(puts) <= 1
               /\ \A p \in puts :
                     /\ \E g \in gets : g < p
                     /\ loc[r].shaRead = "answer"
                     /\ calls[r][p].arg.sha =
                           IF loc[r].answer = 0 THEN None ELSE Some(loc[r].answer)
               /\ loc[r].shaRead \notin {"none", "answer"} =>
                     /\ puts = {}
                     /\ pc[r] = "done"
               /\ pc[r] = "put" => loc[r].shaRead = "answer"

\* a save read marker 1 of an existing file and then put with that marker
C8_Witness ==
    /\ Finished("r1", "save_newsletter")
    /\ Len(calls["r1"]) = 2
    /\ calls["r1"][1].op = "GET contents"
    /\ calls["r1"][2].op = "PUT contents"
    /\ calls["r1"][2].arg.sha = Some(1)
    /\ resp["r1"] = JsonOk("Saved to GitHub.")

\* C9: when the content fetch of a send or a review yields None or empty
\* content, the answer is 404 and neither the email platform nor the AI
\* provider is called, in simulated mode as in real mode.
C9_NotFoundBeforeSimulation ==
    \A r \in Slots :
        (pc[r] = "done" /\ loc[r].ran
           /\ req[r].route \in {"send_newsletter", "ai_review_newsletter"}
           /\ ~Truthy(loc[r].html_content)) =>
              /\ resp[r].status = 404
              /\ resp[r].kind = "json_error"
              /\ CallsTo(r, "mailchimp") = {}
              /\ CallsTo(r, "anthropic") = {}

\* in MOCK_MODE the backend answered 200 with an empty body and the review
\* was answered 404
C9_Witness ==
    /\ MOCK_MODE
    /\ Finished("r1", "ai_review_newsletter")
    /\ loc["r1"].backend = "200"
    /\ loc["r1"].html_content = Some(EmptyHtml)
    /\ resp["r1"] = JsonError(404, "Not found")

\* C10: when a step of the styling stage fails, inlined_html is the fetched
\* content unchanged, that is what is handed to the email platform, and the
\* send goes on to the dispatch stage.
C10_StylingFailureFallsBack ==
    \A r \in Slots :
        (Finished(r, "send_newsletter") /\ loc[r].styling # "none") =>
            /\ loc[r].inlined_html = loc[r].html_content
            /\ \A i \in CallsOf(r, "campaigns.set_content") :
                  calls[r][i].arg = loc[r].html_content[1]
            /\ IF MOCK_MODE \/ ~mailchimp
               THEN req[r].body = "object" => resp[r].status = 200
               ELSE CallsOf(r, "campaigns.create") # {}

\* the inliner raised on a document with a stylesheet link, a head and a
\* styled element; the campaign was sent with the document as fetched
C10_Witness ==
    /\ Finished("r1", "send_newsletter")
    /\ loc["r1"].css = "present"
    /\ loc["r1"].styling = "inline"
    /\ loc["r1"].html_content = Some(Html("quoted", TRUE, 1, FALSE, 0))
    /\ \E i \in CallsOf("r1", "campaigns.set_content") :
          calls["r1"][i].arg = Html("quoted", TRUE, 1, FALSE, 0)
    /\ resp["r1"] = JsonOk("Newsletter sent successfully!")

\* C11: when the styling stage of a send ends without a failure, the html
\* handed to the email platform holds no <link> to newsletter.css, with or
\* without the CSS asset; with the asset present and a link in the fetched
\* content, it also carries inline style attributes.
C11_NoLinkAfterStyling ==
    \A r \in Slots :
        (Finished(r, "send_newsletter") /\ loc[r].styling = "none"
           /\ loc[r].css # "unread") =>
              \A i \in CallsOf(r, "campaigns.set_content") :
                 /\ calls[r][i].arg.link = "none"
                 /\ (loc[r].css = "present" /\ loc[r].html_content[1].link # "none") =>
                       calls[r][i].arg.inl > 0

\* slot r holds a finished send whose content fetch found the newsletter
SentExisting(r) == Finished(r, "send_newsletter") /\ Truthy(loc[r].html_content)

\* C12: in simulated mode (MOCK_MODE, or no email-platform client) a send of
\* an existing newsletter makes no call to the email platform, and a request
\* with a JSON object body is answered with the success message
\* "[MOCK] Test email sent!" when test_mode is true and
\* "[MOCK] Newsletter sent!" otherwise.
C12_SimulatedSend ==
    \A r \in Slots :
        (SentExisting(r) /\ (MOCK_MODE \/ ~mailchimp)) =>
            /\ CallsTo(r, "mailchimp") = {}
            /\ req[r].body = "object" =>
                  resp[r] = IF req[r].test_mode THEN JsonOk("[MOCK] Test email sent!")
                            ELSE JsonOk("[MOCK] Newsletter sent!")

\* without MOCK_MODE and without a client, a test send of an existing
\* newsletter was answered with the simulated test message
C12_Witness ==
    /\ ~MOCK_MODE /\ ~mailchimp
    /\ SentExisting("r1")
    /\ req["r1"].body = "object" /\ req["r1"].test_mode
    /\ resp["r1"] = JsonOk("[MOCK] Test email sent!")
    /\ calls["r1"] = <<Call("backend", "GET /newsletter", "a.html")>>

\* the operations of the calls of slot r to the email platform, in order
PlatformOps(r) ==
    LET m == SelectSeq(calls[r], LAMBDA c : c.svc = "mailchimp")
    IN [i \in 1..Len(m) |-> m[i].op]
\* the three calls of a send with the given test_mode
SendOrder(test_mode) ==
    <<"campaigns.create", "campaigns.set_content",
      IF test_mode THEN "campaigns.send_test_email" ELSE "campaigns.send">>

\* C13: in a non-simulated send the calls to the email platform are, in this
\* order, create, set_content and one dispatch call; a call is made only when
\* the one before it succeeded (and the dispatch only when the body could be
\* read); with test_mode the dispatch is the test send to the test address
\* and the full-list send is not called, without it the dispatch is the
\* full-list send and the test send is not called.
C13_PlatformCallOrder ==
    \A r \in Slots :
        (SentExisting(r) /\ ~(MOCK_MODE \/ ~mailchimp)) =>
            LET ops == PlatformOps(r)
                order == SendOrder(req[r].test_mode)
            IN /\ Len(ops) <= 3
               /\ ops = SubSeq(order, 1, Len(ops))
               /\ loc[r].failAt # 0 => Len(ops) = loc[r].failAt
               /\ (loc[r].failAt = 0 /\ req[r].body # "object") => Len(ops) = 2
               /\ (loc[r].failAt = 0 /\ req[r].body = "object") =>
                     /\ Len(ops) = 3
                     /\ resp[r].status = 200
               /\ \A i \in CallsOf(r, "campaigns.set_content") :
                     calls[r][i].arg = loc[r].inlined_html[1]
               /\ \A i \in CallsOf(r, "campaigns.send_test_email") :
                     calls[r][i].arg = "EDITOR_EMAIL"
               /\ req[r].test_mode => CallsOf(r, "campaigns.send") = {}
               /\ ~req[r].test_mode => CallsOf(r, "campaigns.send_test_email") = {}

\* a test send with a working platform: create, set_content, then the test
\* send alone
C13_Witness ==
    /\ mailchimp /\ ~MOCK_MODE
    /\ SentExisting("r1")
    /\ req["r1"].test_mode
    /\ PlatformOps("r1") = SendOrder(TRUE)
    /\ resp["r1"] = JsonOk("Test email sent!")

\* the routes under /api that call a collaborator which can fail
ProxyRoutes ==
    {"save_newsletter", "send_newsletter", "ai_review_newsletter", "generate_newsletter"}
\* a collaborator call of the request in slot r failed, or its body was
\* absent or no JSON object
CollaboratorFailed(r) ==
    \/ loc[r].shaRead \notin {"none", "answer"}
    \/ loc[r].put \in {"neterr", "badjson", "rejected"}
    \/ loc[r].failAt # 0
    \/ req[r].body \in {"nojson", "nonobject"}
    \/ loc[r].backend \in {"neterr", "404", "500", "status500", "undecodable", "nondict",
                           "success_false"}

\* C14: whatever collaborator call fails inside a route (the revision read or
\* the put raising, the email platform raising any exception, the backend
\* failing, the body absent or no JSON), the request ends with a JSON error
\* body and an error status, and no exception leaves the handler.
C14_FailuresAnsweredInJson ==
    \A r \in Slots :
        (pc[r] = "done" /\ loc[r].ran /\ req[r].route \in ProxyRoutes) =>
            /\ resp[r].kind \notin {"exception", "abort"}
            /\ CollaboratorFailed(r) =>
                  /\ resp[r].kind = "json_error"
                  /\ resp[r].status >= 400

\* slot r holds a finished save of a JSON object with non-empty content
SavedContent(r) ==
    /\ Finished(r, "save_newsletter")
    /\ req[r].body = "object" /\ req[r].html_content = "<p>hi</p>"
\* slot r holds a finished review whose content fetch found the newsletter
ReviewedExisting(r) == Finished(r, "ai_review_newsletter") /\ Truthy(loc[r].html_content)
\* the answer of commit_file without GITHUB_TOKEN, as save_newsletter passes it on
NotConfigured ==
    JsonFailure(500, "GitHub Save Failed", "Server is not configured to save files.")

\* C15 as stated: without the credentials of its integration, each of send
\* (email platform), review (AI provider) and save (version-control store)
\* answers an operation on an existing newsletter with a success response.
C15_Original ==
    \A r \in Slots :
        /\ (SentExisting(r) /\ req[r].body = "object" /\ ~mailchimp) =>
              resp[r].status = 200
        /\ (ReviewedExisting(r) /\ ~client) => resp[r].status = 200
        /\ (SavedContent(r) /\ ~GITHUB_TOKEN) => resp[r].status = 200

\* C15 as amended: without an email-platform client a send (of a JSON object
\* body) and without an AI client a review of an existing newsletter are
\* answered with the simulated success and make no call to the integration;
\* without GITHUB_TOKEN a save is answered 500 "Server is not configured to
\* save files." and sends nothing to the store.
C15_MissingCredentials ==
    \A r \in Slots :
        /\ (SentExisting(r) /\ ~mailchimp) =>
              /\ CallsTo(r, "mailchimp") = {}
              /\ req[r].body = "object" =>
                    /\ resp[r].status = 200
                    /\ resp[r].msg \in {"[MOCK] Test email sent!", "[MOCK] Newsletter sent!"}
        /\ (ReviewedExisting(r) /\ ~client) =>
              /\ resp[r] = JsonOk("[MOCK] Looks great!")
              /\ CallsTo(r, "anthropic") = {}
        /\ (SavedContent(r) /\ ~GITHUB_TOKEN) =>
              /\ resp[r] = NotConfigured
              /\ CallsTo(r, "github") = {}

\* without GITHUB_TOKEN a save with content and notes was answered 500
C15_Witness ==
    /\ ~GITHUB_TOKEN
    /\ SavedContent("r1")
    /\ req["r1"].editor_notes = "fix typo"
    /\ resp["r1"] = NotConfigured
    /\ calls["r1"] = <<>>

\* slot r holds a generation request whose handler ran with generation.lock present
GenerateWhileLocked(r) ==
    req[r].route = "generate_newsletter" /\ loc[r].ran /\ loc[r].locked
Conflict == JsonError(409, "Newsletter generation is already in progress.")

\* C16 as stated: a generation request handled while the lock file is
\* present is answered 409 and posts nothing to the backend, in every
\* configuration, MOCK_MODE included.
C16_Original ==
    \A r \in Slots :
        GenerateWhileLocked(r) =>
            /\ pc[r] = "done"
            /\ resp[r].status = 409
            /\ CallsOf(r, "POST /api/generate") = {}

\* C16 as amended: a generation request handled while the lock file is
\* present posts nothing to the backend in any configuration; it is answered
\* 409 unless MOCK_MODE is set, where the simulated success is returned
\* without looking at the lock.
C16_LockedGeneration ==
    \A r \in Slots :
        GenerateWhileLocked(r) =>
            /\ pc[r] = "done"
            /\ CallsOf(r, "POST /api/generate") = {}
            /\ resp[r] = IF MOCK_MODE THEN JsonOk("[MOCK] Newsletter generated!")
                         ELSE Conflict

\* without MOCK_MODE, a generation request found the lock and was answered 409
C16_Witness ==
    /\ ~MOCK_MODE
    /\ Finished("r1", "generate_newsletter")
    /\ loc["r1"].locked
    /\ resp["r1"] = Conflict
    /\ calls["r1"] = <<>>

\* slot r holds a generation request that passed the lock check
PassedLockCheck(r) ==
    /\ req[r].route = "generate_newsletter" /\ loc[r].ran
    /\ pc[r] = "generate_post" \/ CallsOf(r, "POST /api/generate") # {}
\* a step that creates or removes generation.lock is no step of a request
LockChangedOutsideRequests == (lockFile' # lockFile) => (pc' = pc /\ calls' = calls)

\* C17: the lock check gives no mutual exclusion.  No step of a generation
\* request creates or removes the lock file, a request passes the check
\* whenever the file is absent at that moment, whatever the other request is
\* doing, and a request that passed posts to the backend; so both requests
\* can be between check and POST at once (the witness).
C17_NoMutualExclusion ==
    /\ [][LockChangedOutsideRequests]_vars
    /\ [](\A r \in Slots :
            /\ PassedLockCheck(r) => (~loc[r].locked /\ ~MOCK_MODE)
            /\ (Finished(r, "generate_newsletter") /\ loc[r].ran
                  /\ ~loc[r].locked /\ ~MOCK_MODE) =>
                  CallsOf(r, "POST /api/generate") # {})

\* both requests found the lock absent and neither has posted yet: both go
\* on to the backend's generate endpoint
C17_Witness ==
    /\ pc["r1"] = "generate_post" /\ pc["r2"] = "generate_post"
    /\ ~loc["r1"].locked /\ ~loc["r2"].locked
    /\ ~lockFile

\* the save in slot r was answered with the success response
SaveAccepted(r) == Finished(r, "save_newsletter") /\ resp[r] = JsonOk("Saved to GitHub.")
\* the saves in slots a and b are for the same id and read the same marker
SameMarkerRead(a, b) ==
    /\ req[a].route = "save_newsletter" /\ req[b].route = "save_newsletter"
    /\ req[a].id = req[b].id
    /\ loc[a].shaRead = "answer" /\ loc[b].shaRead = "answer"
    /\ loc[a].answer = loc[b].answer

\* C18: with a store that accepts a put only when it carries the file's
\* current marker (and gives the file a new marker on every accepted put), of
\* two saves of one id that read the same marker at most one is answered with
\* success; the other one, once finished, is answered with status 500, and
\* the accepted put is the store's next revision.
C18_NoLostUpdate ==
    \A a \in Slots : \A b \in Slots \ {a} :
        SameMarkerRead(a, b) =>
            /\ ~(SaveAccepted(a) /\ SaveAccepted(b))
            /\ (SaveAccepted(a) /\ pc[b] = "done") =>
                  /\ resp[b].status = 500
                  /\ resp[b].kind \in {"json_error", "exception"}
            /\ SaveAccepted(a) => store[req[a].id] > loc[a].answer

\* both requests read marker 1 of a.html; the put of r1 was accepted and the
\* put of r2, carrying the marker that no longer matches, was answered 500
C18_Witness ==
    /\ SameMarkerRead("r1", "r2")
    /\ req["r1"].id = "a.html" /\ loc["r1"].answer = 1
    /\ SaveAccepted("r1")
    /\ Finished("r2", "save_newsletter")
    /\ resp["r2"] = JsonFailure(500, "GitHub Save Failed", "does not match")
    /\ store["a.html"] = 2

====
